---------------------------- MODULE Spec2Model ----------------------------
(***************************************************************************)
(* Model of benchx: the metrics engine (src/benchx/metrics.py: the         *)
(* MetricsCollector store, its record()/record_iteration() mutators, the   *)
(* aggregate()/get_summary() reducers and the _percentile estimator), the  *)
(* FairnessChecker (src/benchx/fairness.py), one run of                    *)
(* Benchmark._run_engine (src/benchx/benchmark.py) and the pricing cache   *)
(* of CostCalculator (src/benchx/cost.py).                                 *)
(*                                                                         *)
(* Python floats are modelled as exact rationals [k, n, d] (n/d in lowest  *)
(* terms, d > 0).  IEEE rounding is modelled where the order of the        *)
(* operations decides the value, which is in sum() over floats: each       *)
(* partial sum is rounded to MantissaBits significant bits, ties to even.  *)
(* An operation that rounds once (a quotient, a difference,                *)
(* statistics.mean, which sums exactly) is a function of its exact value   *)
(* and is modelled by it.  A dict entry that may be missing or null        *)
(* carries the kind "absent" or "none" instead of "num".                   *)
(* The "timestamp" and "token_timestamps" entries that record() and        *)
(* record_iteration() store are left out: no method of the class reads     *)
(* them.                                                                   *)
(***************************************************************************)
EXTENDS Integers, Sequences, FiniteSets, TLC

(***************************************************************************)
(* Bounds of the model.                                                    *)
(***************************************************************************)
MaxRecords == 3        \* record() calls per run
MaxIterations == 2     \* record_iteration() calls per run
MaxLen == 4            \* longest sample list handed to _percentile
MaxEngines == 3        \* engines whose configs are compared
MaxEntries == 3        \* entries of all the compared configs together
MaxPrompts == 3        \* prompts of a benchmark run
MaxWorkers == 2        \* largest concurrent_requests of a benchmark run
MaxWarmups == 2        \* largest warmup_requests of a benchmark run
PercentileSlack == 100  \* how far outside [0, 100] a percentile is asked
MantissaBits == 3      \* significant bits of a float (53 in CPython)
MaxCalls == 4          \* calls of a script that is replayed in another order
MaxClock == 48         \* hours the clock of the pricing cache runs

(***************************************************************************)
(* Python values.                                                          *)
(***************************************************************************)
Abs(i) == IF i < 0 THEN -i ELSE i

Max(a, b) == IF a > b THEN a ELSE b

Min(a, b) == IF a < b THEN a ELSE b

RECURSIVE GCD(_, _)
GCD(a, b) == IF b = 0 THEN a ELSE GCD(b, a % b)

\* the number n/d (d > 0) in lowest terms
R(n, d) ==
    LET g == GCD(Abs(n), d)
    IN  [k |-> "num", n |-> n \div g, d |-> d \div g]

I(i) == R(i, 1)

None == [k |-> "none", n |-> 0, d |-> 1]

Absent == [k |-> "absent", n |-> 0, d |-> 1]

RAdd(a, b) == R(a.n * b.d + b.n * a.d, a.d * b.d)

RSub(a, b) == R(a.n * b.d - b.n * a.d, a.d * b.d)

ZeroDivisionError == [k |-> "ZeroDivisionError", n |-> 0, d |-> 1]

\* a / b
RDiv(a, b) ==
    IF b.n = 0 THEN ZeroDivisionError
    ELSE IF b.n > 0 THEN R(a.n * b.d, a.d * b.n)
    ELSE R(-(a.n * b.d), a.d * (-b.n))

RLt(a, b) == a.n * b.d < b.n * a.d

RLe(a, b) == a.n * b.d <= b.n * a.d

Pos(a) == a.n > 0

\* int(x) of a quotient a/b, b > 0: truncation toward zero
Trunc(a, b) == IF a >= 0 THEN a \div b ELSE -((-a) \div b)

\* dict.get(key, default) on an entry that may be missing
Get(v, default) == IF v.k = "absent" THEN default ELSE v

\* `x > 0` raises TypeError when x is None
GtZeroRaises(v) == v.k = "none"

\* the unit in the last place of the float nearest to x > 0, found from the
\* power of two u: x / u lies in [2^(MantissaBits-1), 2^MantissaBits)
RECURSIVE Ulp(_, _)
Ulp(x, u) ==
    IF x.n * u.d >= (2 ^ MantissaBits) * u.n * x.d
    THEN Ulp(x, R(2 * u.n, u.d))
    ELSE IF x.n * u.d < (2 ^ (MantissaBits - 1)) * u.n * x.d
    THEN Ulp(x, R(u.n, 2 * u.d))
    ELSE u

\* x >= 0 rounded to the nearest float, ties to the even mantissa
RoundFloat(x) ==
    IF x.n <= 0 THEN x
    ELSE LET u == Ulp(x, I(1))
             q == RDiv(x, u)
             m == q.n \div q.d
             rem2 == 2 * (q.n - m * q.d)
             mantissa == IF rem2 > q.d \/ (rem2 = q.d /\ m % 2 = 1)
                         THEN m + 1 ELSE m
         IN  R(mantissa * u.n, u.d)

\* a + b of two floats
FAdd(a, b) == RoundFloat(RAdd(a, b))

(***************************************************************************)
(* List helpers: sum(), min(), max(), sorted(), statistics.mean/median.    *)
(***************************************************************************)
\* sum() over exact values (ints, and the exact sum of statistics.mean)
RECURSIVE RSum(_)
RSum(s) == IF s = <<>> THEN I(0) ELSE RAdd(Head(s), RSum(Tail(s)))

RECURSIVE FSumFrom(_, _)
FSumFrom(total, s) ==
    IF s = <<>> THEN total ELSE FSumFrom(FAdd(total, Head(s)), Tail(s))

\* sum() over floats: from 0, left to right, every partial sum rounded
FSum(s) == FSumFrom(I(0), s)

RECURSIVE RMin(_)
RMin(s) ==
    IF Len(s) = 1 THEN s[1]
    ELSE LET m == RMin(Tail(s)) IN IF RLt(m, s[1]) THEN m ELSE s[1]

RECURSIVE RMax(_)
RMax(s) ==
    IF Len(s) = 1 THEN s[1]
    ELSE LET m == RMax(Tail(s)) IN IF RLt(s[1], m) THEN m ELSE s[1]

RECURSIVE Insert(_, _)
Insert(x, s) ==
    IF s = <<>> THEN <<x>>
    ELSE IF RLe(x, Head(s)) THEN <<x>> \o s
    ELSE <<Head(s)>> \o Insert(x, Tail(s))

RECURSIVE Sorted(_)
Sorted(s) == IF s = <<>> THEN <<>> ELSE Insert(Head(s), Sorted(Tail(s)))

Mean(s) == RDiv(RSum(s), I(Len(s)))

Median(s) ==
    LET t == Sorted(s)
        n == Len(t)
    IN  IF n % 2 = 1 THEN t[(n + 1) \div 2]
        ELSE RDiv(RAdd(t[n \div 2], t[n \div 2 + 1]), I(2))

EmptyDict == [key \in {} |-> I(0)]

(***************************************************************************)
(* MetricsCollector: the fields __init__ sets, and for the properties the  *)
(* history of the calls made (calls, ok_calls, failed_calls) and the       *)
(* outcome of the latest call (last).                                      *)
(***************************************************************************)
VARIABLES metric_names, raw_data, iteration_data, ttft_data, request_count,
          error_count, calls, ok_calls, failed_calls, last

\* one call of _percentile: its arguments and what it returned; and what
\* Benchmark._run_engine computes as p50, p95 and p99 of the same list
VARIABLES data, percentile, pct_result, latency_percentiles

pctVars == <<data, percentile, pct_result, latency_percentiles>>

\* one use of the FairnessChecker: the configs handed to it, what
\* check_configs and auto_fix_configs returned, and what check_configs returned
\* on the fixed configs
VARIABLES configs, mismatches, fixed_configs, fixed_mismatches, fairness_pc

fairnessVars ==
    <<configs, mismatches, fixed_configs, fixed_mismatches, fairness_pc>>

\* one run of Benchmark._run_engine: the number of prompts, the
\* concurrent_requests and warmup_requests settings, the passes the warm-up
\* loop has made, the engine (engine_obj) with the calls made on it
\* (initialize returned, the generate calls of each prompt, the shutdown
\* calls), how many prompts the loop has reached, the
\* state of each prompt's future, the futures as_completed has yielded, and
\* the locals all_results and total_tokens (run_tokens here); run_result is
\* what the run returned
VARIABLES prompts, concurrent_requests, warmup_requests, warmups,
          engine_obj, submitted, futures, yielded, all_results, run_tokens,
          run_pc, run_result

benchmarkVars ==
    <<prompts, concurrent_requests, warmup_requests, warmups, engine_obj,
      submitted, futures, yielded, all_results, run_tokens, run_pc,
      run_result>>

\* two collectors fed the same calls: in_order is fed the calls of script as
\* they are made, shuffled is fed them afterwards in any order (done holds the
\* positions of script it has got); reports is what aggregate() returned on
\* the two
VARIABLES script, done, in_order, shuffled, reports

orderVars == <<script, done, in_order, shuffled, reports>>

\* the pricing cache of CostCalculator: the class attributes _pricing_cache
\* and _cache_timestamp, the wall clock in hours, the keys stored since the
\* cache was last cleared, and what the latest call did and when
VARIABLES now, _pricing_cache, _cache_timestamp, stored_since_clear,
          cost_last

costVars ==
    <<now, _pricing_cache, _cache_timestamp, stored_since_clear, cost_last>>

\* what the collector's methods leave alone
outsideMetrics == <<pctVars, fairnessVars, benchmarkVars, orderVars, costVars>>

\* the collector object
Self ==
    [metric_names |-> metric_names, raw_data |-> raw_data,
     iteration_data |-> iteration_data, ttft_data |-> ttft_data,
     request_count |-> request_count, error_count |-> error_count]

\* the collector object after a step
SelfAfter ==
    [metric_names |-> metric_names', raw_data |-> raw_data',
     iteration_data |-> iteration_data', ttft_data |-> ttft_data',
     request_count |-> request_count', error_count |-> error_count']

store == <<raw_data, iteration_data, ttft_data, request_count, error_count>>

history == <<calls, ok_calls, failed_calls, last>>

metricsVars == <<metric_names, store, history>>

\* what the checker's methods leave alone
outsideFairness ==
    <<metricsVars, pctVars, benchmarkVars, orderVars, costVars>>

\* what _percentile leaves alone
outsidePercentile ==
    <<metricsVars, fairnessVars, benchmarkVars, orderVars, costVars>>

\* what a benchmark run leaves alone
outsideBenchmark ==
    <<metricsVars, pctVars, fairnessVars, orderVars, costVars>>

\* what the two collectors fed the same calls leave alone
outsideOrder ==
    <<metricsVars, pctVars, fairnessVars, benchmarkVars, costVars>>

\* what the pricing cache leaves alone
outsideCost ==
    <<metricsVars, pctVars, fairnessVars, benchmarkVars, orderVars>>

\* what a call left behind: it returned `value`, or raised TypeError; `again`
\* when it repeats the call before it with no other call in between
Returned(op, value) ==
    [op |-> op, raised |-> FALSE, value |-> value, again |-> FALSE]

Raised(op) == [op |-> op, raised |-> TRUE, value |-> EmptyDict, again |-> FALSE]

Repeated(outcome, before) ==
    [outcome EXCEPT !.again = before.op = outcome.op]

(***************************************************************************)
(* The inputs of the calls.                                                *)
(***************************************************************************)
MetricSets ==
    { {}, {"ttft", "tpot", "throughput", "p99_latency"} }

Concurrencies == {1, 10}

\* result.get("error") is absent, an empty string or a message
Errors == {"absent", "empty", "message"}

Truthy(error) == error = "message"

\* the result dicts of successful generate() calls: a streaming result, a
\* second one, a slower one, a result of a non-streaming server (ttft null,
\* servers/vllm_server.py), a result whose first token was its last moment
\* (ttft = total_time), and a result with no field at all
ResultShapes ==
    { [total_time |-> I(1), tokens_generated |-> I(100), ttft |-> R(1, 10)],
      [total_time |-> I(2), tokens_generated |-> I(200), ttft |-> R(1, 5)],
      [total_time |-> I(3), tokens_generated |-> I(500), ttft |-> R(1, 2)],
      [total_time |-> I(1), tokens_generated |-> I(100), ttft |-> None],
      [total_time |-> I(1), tokens_generated |-> I(100), ttft |-> I(1)],
      [total_time |-> Absent, tokens_generated |-> Absent, ttft |-> Absent] }

Results ==
    { [error |-> e, total_time |-> r.total_time,
       tokens_generated |-> r.tokens_generated, ttft |-> r.ttft] :
         e \in Errors, r \in ResultShapes }

\* the record() calls made: outcomes of any shape, failed or successful, at
\* concurrency 10, and of the first streaming shape at concurrency 1 too
RecordInputs ==
    { call \in Results \X Concurrencies :
        \/ call[2] = 10
        \/ call[1].ttft = R(1, 10) }

\* the record_iteration() calls made: <<concurrency, elapsed, requests>>
IterationInputs ==
    { <<10, I(2), 3>>, <<10, I(0), 0>>, <<1, I(2), 0>> }

(***************************************************************************)
(* __init__                                                                *)
(***************************************************************************)
MetricsInit ==
    /\ metric_names \in MetricSets
    /\ raw_data = <<>>
    /\ iteration_data = <<>>
    /\ ttft_data = <<>>
    /\ request_count = 0
    /\ error_count = 0
    /\ calls = 0
    /\ ok_calls = 0
    /\ failed_calls = 0
    /\ last = Returned("__init__", EmptyDict)

(***************************************************************************)
(* record(result, concurrency)                                             *)
(***************************************************************************)
DataPoint(result, concurrency) ==
    [concurrency |-> concurrency,
     total_time |-> Get(result.total_time, I(0)),
     tokens_generated |-> Get(result.tokens_generated, I(0)),
     ttft |-> Get(result.ttft, I(0))]

\* a faulty variant: the counter is bumped after the early return of line 25
RequestCountOfStored(result) ==
    IF Truthy(result.error) THEN request_count ELSE request_count + 1

\* line 21
NextRequestCount(result) == request_count + 1

\* a faulty variant: `"error" in result` counts the failure, while line 23
\* still tests the value
ErrorCountOnKey(result) ==
    IF result.error # "absent" THEN error_count + 1 ELSE error_count

\* lines 23-25
NextErrorCount(result) ==
    IF Truthy(result.error) THEN error_count + 1 ELSE error_count

\* a faulty variant: the early return of line 25 is missing
RawDataOfEveryOutcome(result, concurrency) ==
    Append(raw_data, DataPoint(result, concurrency))

\* lines 23-25 return before line 40 appends
NextRawData(result, concurrency) ==
    IF Truthy(result.error) THEN raw_data
    ELSE Append(raw_data, DataPoint(result, concurrency))

\* line 43 compares result.get("ttft", 0) with 0: TypeError on None
RecordRaises(result) ==
    ~Truthy(result.error) /\ GtZeroRaises(Get(result.ttft, I(0)))

\* lines 43-47
NextTtftData(result, concurrency) ==
    IF ~Truthy(result.error) /\ ~RecordRaises(result)
       /\ Pos(Get(result.ttft, I(0)))
    THEN Append(ttft_data, [ttft |-> result.ttft, concurrency |-> concurrency])
    ELSE ttft_data

Record(result, concurrency) ==
    /\ calls < MaxRecords
    /\ request_count' = NextRequestCount(result)
    /\ error_count' = NextErrorCount(result)
    /\ raw_data' = NextRawData(result, concurrency)
    /\ ttft_data' = NextTtftData(result, concurrency)
    /\ calls' = calls + 1
    /\ ok_calls' = IF Truthy(result.error) THEN ok_calls ELSE ok_calls + 1
    /\ failed_calls' =
         IF Truthy(result.error) THEN failed_calls + 1 ELSE failed_calls
    /\ last' = IF RecordRaises(result) THEN Raised("record")
               ELSE Returned(IF Truthy(result.error) THEN "record_failed"
                             ELSE "record", EmptyDict)
    /\ UNCHANGED <<metric_names, iteration_data, outsideMetrics>>

(***************************************************************************)
(* record_iteration(concurrency, elapsed, requests)                        *)
(***************************************************************************)
RecordIteration(concurrency, elapsed, requests) ==
    /\ Len(iteration_data) < MaxIterations
    /\ iteration_data' =
         Append(iteration_data,
                [concurrency |-> concurrency,
                 elapsed |-> elapsed,
                 requests |-> IF requests # 0 THEN requests ELSE concurrency])
    /\ last' = Returned("record_iteration", EmptyDict)
    /\ UNCHANGED <<metric_names, raw_data, ttft_data, request_count,
                   error_count, calls, ok_calls, failed_calls, outsideMetrics>>

(***************************************************************************)
(* _percentile(data, percentile): nearest rank.  int(n * P / 100) is the   *)
(* truncation of the quotient; sorted_data is indexed from 0 in the code   *)
(* and from 1 here.                                                        *)
(***************************************************************************)
IndexError == [k |-> "IndexError", n |-> 0, d |-> 1]

\* s[i] of a Python list: a negative i counts from the end
PyIndex(s, i) ==
    IF 0 <= i /\ i < Len(s) THEN s[i + 1]
    ELSE IF -Len(s) <= i /\ i < 0 THEN s[Len(s) + i + 1]
    ELSE IndexError

\* a faulty variant: the rank is not moved to a zero-based index
PercentileRank(n, p) == Max(0, Trunc(n * p, 100))

\* line 160
PercentileIndex(n, p) == Max(0, Trunc(n * p, 100) - 1)

\* a faulty variant: linear interpolation between the two nearest ranks
InterpolatedPercentile(samples, p) ==
    IF samples = <<>> THEN I(0)
    ELSE LET sorted_data == Sorted(samples)
             n == Len(sorted_data)
             lower == Trunc((n - 1) * p, 100)
             weight == R((n - 1) * p - 100 * lower, 100)
         IN  IF lower >= n - 1 THEN sorted_data[n]
             ELSE IF p <= 0 THEN sorted_data[1]
             ELSE LET step == RSub(sorted_data[lower + 2],
                                   sorted_data[lower + 1])
                  IN  RAdd(sorted_data[lower + 1],
                           R(weight.n * step.n, weight.d * step.d))

\* a faulty variant: the index is not clamped to the end of the list
UnclampedPercentile(samples, p) ==
    IF samples = <<>> THEN I(0)
    ELSE LET sorted_data == Sorted(samples)
         IN  IF p = 100 THEN PyIndex(sorted_data, -1)
             ELSE PyIndex(sorted_data, PercentileIndex(Len(sorted_data), p))

\* a faulty variant: line 157 is missing, the list is indexed as it comes
PercentileOfUnsorted(samples, p) ==
    IF samples = <<>> THEN I(0)
    ELSE LET n == Len(samples)
         IN  IF p = 100 THEN PyIndex(samples, -1)
             ELSE PyIndex(samples, Min(PercentileIndex(n, p), n - 1))

_percentile(samples, p) ==
    IF samples = <<>> THEN I(0)
    ELSE LET sorted_data == Sorted(samples)
             n == Len(sorted_data)
         IN  IF p = 100 THEN PyIndex(sorted_data, -1)
             ELSE PyIndex(sorted_data, Min(PercentileIndex(n, p), n - 1))

(***************************************************************************)
(* aggregate(): one operator for each section of the report.               *)
(***************************************************************************)
Map(s, F(_)) == [i \in 1..Len(s) |-> F(s[i])]

_empty_metrics(self) ==
    [total_requests |-> I(self.request_count),
     successful_requests |-> I(0),
     failed_requests |-> I(self.error_count),
     success_rate |-> I(0)]

CountMetrics(self) ==
    [total_requests |-> I(self.request_count),
     successful_requests |-> I(Len(self.raw_data)),
     failed_requests |-> I(self.error_count),
     success_rate |-> IF self.request_count > 0
                      THEN RDiv(I(Len(self.raw_data)), I(self.request_count))
                      ELSE I(0)]

\* mean, median, p50, p95, p99 under the keys of one family
Distribution(family, values) ==
    (family \o "_mean") :> Mean(values)
    @@ (family \o "_median") :> Median(values)
    @@ (family \o "_p50") :> _percentile(values, 50)
    @@ (family \o "_p95") :> _percentile(values, 95)
    @@ (family \o "_p99") :> _percentile(values, 99)

\* a faulty variant: min() and max() under each other's key
ExtremesSwapped(family, values) ==
    (family \o "_min") :> RMax(values)
    @@ (family \o "_max") :> RMin(values)

Extremes(family, values) ==
    (family \o "_min") :> RMin(values)
    @@ (family \o "_max") :> RMax(values)

\* a faulty variant: the TTFT section is not gated by the metric set
UngatedTtftMetrics(self) ==
    IF self.ttft_data # <<>>
    THEN LET Ttft(d) == d.ttft
             ttft_values == Map(self.ttft_data, Ttft)
         IN  Distribution("ttft", ttft_values) @@ Extremes("ttft", ttft_values)
    ELSE EmptyDict

TtftMetrics(self) ==
    IF "ttft" \in self.metric_names /\ self.ttft_data # <<>>
    THEN LET IsPos(d) == Pos(d.ttft)
             Ttft(d) == d.ttft
             ttft_values == Map(SelectSeq(self.ttft_data, IsPos), Ttft)
         IN  IF ttft_values # <<>>
             THEN Distribution("ttft", ttft_values) @@ Extremes("ttft", ttft_values)
             ELSE EmptyDict
    ELSE EmptyDict

\* the outcomes that pass line 86; line 88 subtracts their ttft
TpotCandidates(self) ==
    LET Timed(d) == Pos(d.tokens_generated) /\ Pos(d.total_time)
    IN  SelectSeq(self.raw_data, Timed)

\* total_time - None raises TypeError
TpotRaises(self) ==
    /\ "tpot" \in self.metric_names
    /\ \E i \in 1..Len(TpotCandidates(self)) :
          TpotCandidates(self)[i].ttft.k = "none"

\* a faulty variant: line 89 is missing
TpotOfEveryCandidate(self) ==
    IF "tpot" \in self.metric_names
    THEN LET GenerationTime(d) == RSub(d.total_time, d.ttft)
             Tpot(d) == RDiv(GenerationTime(d), d.tokens_generated)
             tpots == Map(TpotCandidates(self), Tpot)
         IN  IF tpots # <<>> THEN Distribution("tpot", tpots) ELSE EmptyDict
    ELSE EmptyDict

TpotMetrics(self) ==
    IF "tpot" \in self.metric_names
    THEN LET GenerationTime(d) == RSub(d.total_time, d.ttft)
             Generating(d) == Pos(GenerationTime(d))
             Tpot(d) == RDiv(GenerationTime(d), d.tokens_generated)
             tpots == Map(SelectSeq(TpotCandidates(self), Generating), Tpot)
         IN  IF tpots # <<>> THEN Distribution("tpot", tpots) ELSE EmptyDict
    ELSE EmptyDict

Tokens(d) == d.tokens_generated

ElapsedOf(d) == d.elapsed

\* a faulty variant: no test of total_time before dividing
UnguardedThroughput(self) ==
    LET total_tokens == RSum(Map(self.raw_data, Tokens))
        total_time == FSum(Map(self.iteration_data, ElapsedOf))
    IN  [throughput_tokens_per_sec |-> RDiv(total_tokens, total_time),
         throughput_requests_per_sec |->
             RDiv(I(Len(self.raw_data)), total_time)]

\* a faulty variant: the requests' own total_time is summed, not the elapsed
\* time of the iterations
ThroughputOverRequestTime(self) ==
    LET TotalTime(d) == d.total_time
        total_tokens == RSum(Map(self.raw_data, Tokens))
        total_time == RSum(Map(self.raw_data, TotalTime))
    IN  IF Pos(total_time)
        THEN [throughput_tokens_per_sec |-> RDiv(total_tokens, total_time),
              throughput_requests_per_sec |->
                  RDiv(I(Len(self.raw_data)), total_time)]
        ELSE EmptyDict

ThroughputMetrics(self) ==
    LET total_tokens == RSum(Map(self.raw_data, Tokens))
        total_time == FSum(Map(self.iteration_data, ElapsedOf))
    IN  IF Pos(total_time)
        THEN [throughput_tokens_per_sec |-> RDiv(total_tokens, total_time),
              throughput_requests_per_sec |->
                  RDiv(I(Len(self.raw_data)), total_time)]
        ELSE EmptyDict

ConcurrencyKey(concurrency) == "throughput_c" \o ToString(concurrency)

ConcurrencyTime(self, concurrency) ==
    LET At(d) == d.concurrency = concurrency
    IN  FSum(Map(SelectSeq(self.iteration_data, At), ElapsedOf))

\* a faulty variant: the tokens of every outcome, whatever its concurrency
TokensOfEveryLevel(self, concurrency) == RSum(Map(self.raw_data, Tokens))

ConcurrencyTokens(self, concurrency) ==
    LET At(d) == d.concurrency = concurrency
    IN  RSum(Map(SelectSeq(self.raw_data, At), Tokens))

ConcurrencyThroughput(self) ==
    LET levels == {self.raw_data[i].concurrency : i \in 1..Len(self.raw_data)}
        kept == {c \in levels :
                   /\ \E i \in 1..Len(self.iteration_data) :
                          self.iteration_data[i].concurrency = c
                   /\ Pos(ConcurrencyTime(self, c))}
    IN  [key \in {ConcurrencyKey(c) : c \in kept} |->
           LET c == CHOOSE c \in kept : ConcurrencyKey(c) = key
           IN  RDiv(ConcurrencyTokens(self, c), ConcurrencyTime(self, c))]

LatencyMetrics(self) ==
    IF "p99_latency" \in self.metric_names \/ "latency" \in self.metric_names
    THEN LET TotalTime(d) == d.total_time
             latencies == Map(self.raw_data, TotalTime)
         IN  IF latencies # <<>>
             THEN Distribution("latency", latencies)
                  @@ Extremes("latency", latencies)
             ELSE EmptyDict
    ELSE EmptyDict

TokenMetrics(self) ==
    LET Generated(d) == Pos(d.tokens_generated)
        tokens_list == Map(SelectSeq(self.raw_data, Generated), Tokens)
    IN  IF tokens_list # <<>>
        THEN [tokens_mean |-> Mean(tokens_list), tokens_total |-> RSum(tokens_list)]
        ELSE EmptyDict

AggregateRaises(self) == self.raw_data # <<>> /\ TpotRaises(self)

\* a faulty variant: lines 60-61 are missing
AggregateWithoutEmptyCheck(self) ==
    CountMetrics(self) @@ TtftMetrics(self) @@ TpotMetrics(self)
    @@ (IF "throughput" \in self.metric_names
        THEN ThroughputMetrics(self) @@ ConcurrencyThroughput(self)
        ELSE EmptyDict)
    @@ LatencyMetrics(self) @@ TokenMetrics(self)

\* the report aggregate() returns when it does not raise
Aggregate(self) ==
    IF self.raw_data = <<>> THEN _empty_metrics(self)
    ELSE CountMetrics(self) @@ TtftMetrics(self) @@ TpotMetrics(self)
         @@ (IF "throughput" \in self.metric_names
             THEN ThroughputMetrics(self) @@ ConcurrencyThroughput(self)
             ELSE EmptyDict)
         @@ LatencyMetrics(self) @@ TokenMetrics(self)

\* a faulty variant: the outcomes are consumed by the reduction
DrainingAggregateCall ==
    /\ last' = Repeated(IF AggregateRaises(Self) THEN Raised("aggregate")
                        ELSE Returned("aggregate", Aggregate(Self)), last)
    /\ raw_data' = <<>>
    /\ UNCHANGED <<metric_names, iteration_data, ttft_data, request_count,
                   error_count, calls, ok_calls, failed_calls, outsideMetrics>>

AggregateCall ==
    /\ last' = Repeated(IF AggregateRaises(Self) THEN Raised("aggregate")
                        ELSE Returned("aggregate", Aggregate(Self)), last)
    /\ UNCHANGED <<metric_names, store, calls, ok_calls, failed_calls,
                   outsideMetrics>>

(***************************************************************************)
(* get_summary(): the segments joined by " | ", each with the numbers its  *)
(* format string prints (":.1%" and ":.2f" round half to even).            *)
(***************************************************************************)
\* x rounded to a multiple of 1/scale
Round(x, scale) ==
    LET num == x.n * scale
        q == num \div x.d
        rem2 == 2 * (num - q * x.d)
    IN  IF rem2 > x.d \/ (rem2 = x.d /\ q % 2 = 1) THEN R(q + 1, scale)
        ELSE R(q, scale)

Milliseconds(x) == Round(R(x.n * 1000, x.d), 100)

Summary(metrics) ==
    LET Has(key) == key \in DOMAIN metrics
        Segment(label, a, b) == [label |-> label, a |-> a, b |-> b]
    IN  <<Segment("Requests", metrics["successful_requests"],
                  metrics["total_requests"]),
          Segment("Success Rate",
                  Round(R(metrics["success_rate"].n * 100,
                          metrics["success_rate"].d), 10), I(0))>>
        \o (IF Has("throughput_tokens_per_sec")
            THEN <<Segment("Throughput",
                           Round(metrics["throughput_tokens_per_sec"], 100),
                           I(0))>>
            ELSE <<>>)
        \o (IF Has("ttft_mean")
            THEN <<Segment("TTFT", Milliseconds(metrics["ttft_mean"]),
                           Milliseconds(IF Has("ttft_p99")
                                        THEN metrics["ttft_p99"] ELSE I(0)))>>
            ELSE <<>>)
        \o (IF Has("tpot_mean")
            THEN <<Segment("TPOT", Milliseconds(metrics["tpot_mean"]), I(0))>>
            ELSE <<>>)

GetSummary ==
    /\ last' = IF AggregateRaises(Self) THEN Raised("get_summary")
               ELSE Returned("get_summary", Summary(Aggregate(Self)))
    /\ UNCHANGED <<metric_names, store, calls, ok_calls, failed_calls,
                   outsideMetrics>>

(***************************************************************************)
(* The collector driven by any caller.                                     *)
(***************************************************************************)
MetricsNext ==
    \/ \E call \in RecordInputs : Record(call[1], call[2])
    \/ \E call \in IterationInputs : RecordIteration(call[1], call[2], call[3])
    \/ AggregateCall
    \/ GetSummary

(***************************************************************************)
(* _percentile called once on any list of at most MaxLen samples, with any *)
(* integer percentile from PercentileSlack below 0 to PercentileSlack      *)
(* above 100.                                                              *)
(***************************************************************************)
Samples == {I(1), I(2), I(3)}

SampleLists == UNION {[1..n -> Samples] : n \in 0..MaxLen}

Percentiles == (0 - PercentileSlack)..(100 + PercentileSlack)

NotCalled == Absent

NotComputed ==
    [p50_latency |-> NotCalled, p95_latency |-> NotCalled,
     p99_latency |-> NotCalled]

PercentileIdle ==
    /\ data = <<>> /\ percentile = 50 /\ pct_result = NotCalled
    /\ latency_percentiles = NotComputed

PercentileInit ==
    /\ data \in SampleLists
    /\ percentile \in Percentiles
    /\ pct_result = NotCalled
    /\ latency_percentiles = NotComputed

PercentileCall ==
    /\ pct_result = NotCalled
    /\ pct_result' = _percentile(data, percentile)
    /\ UNCHANGED <<data, percentile, latency_percentiles, outsidePercentile>>

\* benchmark.py lines 265-268 on the latencies of the successful results:
\* len // 2, int(len * 0.95) and int(len * 0.99) index the sorted list (the
\* float products truncate to 95 * len \div 100 and 99 * len \div 100 for
\* every len up to 2000)
LatencyPercentiles(latencies) ==
    IF latencies = <<>>
    THEN [p50_latency |-> I(0), p95_latency |-> I(0), p99_latency |-> I(0)]
    ELSE LET sorted_latencies == Sorted(latencies)
             n == Len(sorted_latencies)
         IN  [p50_latency |-> PyIndex(sorted_latencies, n \div 2),
              p95_latency |-> PyIndex(sorted_latencies, Trunc(n * 95, 100)),
              p99_latency |-> PyIndex(sorted_latencies, Trunc(n * 99, 100))]

\* _run_engine reaches line 265 with the latencies of its successful
\* results, of which there is at least one (line 248)
RunPercentiles ==
    /\ latency_percentiles = NotComputed
    /\ data # <<>>
    /\ latency_percentiles' = LatencyPercentiles(data)
    /\ UNCHANGED <<data, percentile, pct_result, outsidePercentile>>

(***************************************************************************)
(* FairnessChecker (src/benchx/fairness.py).  A dict is the sequence of    *)
(* its [key, value] entries in insertion order, which is the order         *)
(* _normalize_config and the reverse lookup of _get_engine_param_name walk *)
(* through; configs is the sequence of [engine, config] entries of the     *)
(* dict handed to check_configs and auto_fix_configs.                      *)
(***************************************************************************)
CRITICAL_PARAMS == <<"tensor_parallel_size", "max_tokens", "dtype">>

WARNING_PARAMS == <<"gpu_memory_utilization", "batch_size">>

\* engine -> its {engine parameter: standard parameter} entries, in order
PARAM_MAPPINGS ==
    [vllm |-> <<[key |-> "tensor_parallel_size",
                 value |-> "tensor_parallel_size"],
                [key |-> "tp", value |-> "tensor_parallel_size"]>>,
     sglang |-> <<[key |-> "tp_size", value |-> "tensor_parallel_size"],
                  [key |-> "tensor_parallel",
                   value |-> "tensor_parallel_size"]>>,
     tensorrt |-> <<[key |-> "world_size",
                     value |-> "tensor_parallel_size"]>>]

\* `key in d`
DictHas(d, key) == \E i \in 1..Len(d) : d[i].key = key

\* d[key] of a key that d holds
DictAt(d, key) == d[CHOOSE i \in 1..Len(d) : d[i].key = key].value

\* d.get(key, default)
DictGet(d, key, default) == IF DictHas(d, key) THEN DictAt(d, key) ELSE default

\* d[key] = value: a key that d holds keeps its place
DictSet(d, key, value) ==
    IF DictHas(d, key)
    THEN [i \in 1..Len(d) |->
            IF d[i].key = key THEN [key |-> key, value |-> value] ELSE d[i]]
    ELSE Append(d, [key |-> key, value |-> value])

\* PARAM_MAPPINGS.get(engine, {})
MappingsOf(engine) ==
    IF engine \in DOMAIN PARAM_MAPPINGS THEN PARAM_MAPPINGS[engine] ELSE <<>>

RECURSIVE NormalizeFrom(_, _, _)
NormalizeFrom(mappings, config, normalized) ==
    IF config = <<>> THEN normalized
    ELSE LET standard_key == DictGet(mappings, Head(config).key,
                                     Head(config).key)
         IN  NormalizeFrom(mappings, Tail(config),
                           DictSet(normalized, standard_key,
                                   Head(config).value))

\* a faulty variant: the keys are compared as the engines spell them
UnmappedConfig(engine, config) == config

_normalize_config(engine, config) ==
    NormalizeFrom(MappingsOf(engine), config, <<>>)

ConfigMismatch(parameter, engine1, value1, engine2, value2, severity) ==
    [parameter |-> parameter, engine1 |-> engine1, value1 |-> value1,
     engine2 |-> engine2, value2 |-> value2, severity |-> severity]

\* one of the two loops of _compare_configs
RECURSIVE CompareParams(_, _, _, _, _, _)
CompareParams(params, severity, engine1, config1, engine2, config2) ==
    IF params = <<>> THEN <<>>
    ELSE LET param == Head(params)
             val1 == DictGet(config1, param, None)
             val2 == DictGet(config2, param, None)
         IN  (IF val1 # val2
              THEN <<ConfigMismatch(param, engine1, val1, engine2, val2,
                                    severity)>>
              ELSE <<>>)
             \o CompareParams(Tail(params), severity, engine1, config1,
                              engine2, config2)

_compare_configs(engine1, config1, engine2, config2) ==
    CompareParams(CRITICAL_PARAMS, "critical", engine1, config1,
                  engine2, config2)
    \o CompareParams(WARNING_PARAMS, "warning", engine1, config1,
                     engine2, config2)

\* a faulty variant: every engine is compared with the first one only
RECURSIVE CompareWithFirst(_, _, _)
CompareWithFirst(normalized, i, j) ==
    IF j > Len(normalized) \/ i > 1 THEN <<>>
    ELSE _compare_configs(normalized[i].key, normalized[i].value,
                          normalized[j].key, normalized[j].value)
         \o CompareWithFirst(normalized, i, j + 1)

\* the loops of lines 68-75 from the pair (i, j) on
RECURSIVE ComparePairs(_, _, _)
ComparePairs(normalized, i, j) ==
    IF i > Len(normalized) THEN <<>>
    ELSE IF j > Len(normalized) THEN ComparePairs(normalized, i + 1, i + 2)
    ELSE _compare_configs(normalized[i].key, normalized[i].value,
                          normalized[j].key, normalized[j].value)
         \o ComparePairs(normalized, i, j + 1)

check_configs(cfgs) ==
    LET normalized ==
          [i \in 1..Len(cfgs) |->
             [key |-> cfgs[i].key,
              value |-> _normalize_config(cfgs[i].key, cfgs[i].value)]]
    IN  ComparePairs(normalized, 1, 2)

\* a faulty variant: no reverse lookup, the standard name is written
StandardParamName(engine, standard_param) == standard_param

\* the reverse lookup: the first engine parameter mapped to standard_param
_get_engine_param_name(engine, standard_param) ==
    LET mappings == MappingsOf(engine)
        hits == {i \in 1..Len(mappings) : mappings[i].value = standard_param}
    IN  IF hits # {}
        THEN mappings[CHOOSE i \in hits : \A j \in hits : i <= j].key
        ELSE standard_param

\* the loop of lines 149-153 over the critical parameters
RECURSIVE ApplyReference(_, _, _, _)
ApplyReference(params, reference_config, engine, fixed) ==
    IF params = <<>> THEN fixed
    ELSE LET param == Head(params)
         IN  ApplyReference(
                 Tail(params), reference_config, engine,
                 IF DictHas(reference_config, param)
                 THEN DictSet(fixed, _get_engine_param_name(engine, param),
                              DictAt(reference_config, param))
                 ELSE fixed)

\* a faulty variant: the warning parameters are overwritten too
AutoFixWarningsToo(cfgs) ==
    IF check_configs(cfgs) = <<>> THEN cfgs
    ELSE LET reference_config == cfgs[1].value
         IN  [i \in 1..Len(cfgs) |->
                [key |-> cfgs[i].key,
                 value |-> ApplyReference(CRITICAL_PARAMS \o WARNING_PARAMS,
                                          reference_config, cfgs[i].key,
                                          cfgs[i].value)]]

auto_fix_configs(cfgs) ==
    IF check_configs(cfgs) = <<>> THEN cfgs
    ELSE LET reference_config == cfgs[1].value
         IN  [i \in 1..Len(cfgs) |->
                [key |-> cfgs[i].key,
                 value |-> ApplyReference(CRITICAL_PARAMS, reference_config,
                                          cfgs[i].key, cfgs[i].value)]]

(***************************************************************************)
(* The caller writes the configs dict, engine by engine and entry by       *)
(* entry: at most MaxEngines engines with at most MaxEntries entries in    *)
(* all their configs together; then it calls check_configs, auto_fix_configs *)
(* and check_configs on the result.  "mock" has no mapping table.          *)
(***************************************************************************)
Engines == {"vllm", "sglang", "mock"}

ConfigKeys ==
    {"tensor_parallel_size", "tp_size", "tensor_parallel", "max_tokens",
     "batch_size"}

ConfigValues(key) ==
    IF key = "max_tokens" THEN {I(2048), None}
    ELSE IF key = "batch_size" THEN {I(8), I(16)}
    ELSE {I(2), I(4)}

RECURSIVE EntryCount(_)
EntryCount(cfgs) ==
    IF cfgs = <<>> THEN 0 ELSE Len(Head(cfgs).value) + EntryCount(Tail(cfgs))

FairnessIdle ==
    /\ configs = <<>>
    /\ mismatches = <<>>
    /\ fixed_configs = <<>>
    /\ fixed_mismatches = <<>>
    /\ fairness_pc = "idle"

FairnessInit ==
    /\ configs = <<>>
    /\ mismatches = <<>>
    /\ fixed_configs = <<>>
    /\ fixed_mismatches = <<>>
    /\ fairness_pc = "start"

\* configs = {..., engine: {}}
AddEngine(engine) ==
    /\ fairness_pc = "start"
    /\ Len(configs) < MaxEngines
    /\ ~DictHas(configs, engine)
    /\ configs' = Append(configs, [key |-> engine, value |-> <<>>])
    /\ UNCHANGED <<mismatches, fixed_configs, fixed_mismatches, fairness_pc,
                   outsideFairness>>

\* one more entry in the config of the engine written last
AddEntry(key, value) ==
    /\ fairness_pc = "start"
    /\ configs # <<>>
    /\ EntryCount(configs) < MaxEntries
    /\ ~DictHas(configs[Len(configs)].value, key)
    /\ configs' =
         [configs EXCEPT ![Len(configs)].value =
            Append(@, [key |-> key, value |-> value])]
    /\ UNCHANGED <<mismatches, fixed_configs, fixed_mismatches, fairness_pc,
                   outsideFairness>>

\* mismatches = checker.check_configs(configs)
CheckConfigs ==
    /\ fairness_pc = "start"
    /\ mismatches' = check_configs(configs)
    /\ fairness_pc' = "checked"
    /\ UNCHANGED <<configs, fixed_configs, fixed_mismatches,
                   outsideFairness>>

\* fixed_configs = checker.auto_fix_configs(configs)
AutoFixConfigs ==
    /\ fairness_pc = "checked"
    /\ fixed_configs' = auto_fix_configs(configs)
    /\ fairness_pc' = "fixed"
    /\ UNCHANGED <<configs, mismatches, fixed_mismatches,
                   outsideFairness>>

\* checker.check_configs(fixed_configs)
CheckFixedConfigs ==
    /\ fairness_pc = "fixed"
    /\ fixed_mismatches' = check_configs(fixed_configs)
    /\ fairness_pc' = "rechecked"
    /\ UNCHANGED <<configs, mismatches, fixed_configs,
                   outsideFairness>>

(***************************************************************************)
(* Benchmark._run_engine (src/benchx/benchmark.py), from the construction  *)
(* of the engine to the result it returns.  A generate() call returns a    *)
(* result, returns a result whose "ttft" is None, returns a result with an *)
(* "error" key (the engines' own except path), or raises (a timeout        *)
(* included).  With concurrent_requests = 1 the prompts are processed in   *)
(* a loop; otherwise each is submitted to a                                *)
(* pool of concurrent_requests workers that take the queued calls in       *)
(* order, and the main thread appends what as_completed yields.  The entry *)
(* of all_results carries the number of its prompt for the properties; the *)
(* code's entries do not.                                                  *)
(***************************************************************************)
Outcomes == {"result", "null_ttft_result", "error_result", "raise"}

\* the outcomes that leave a result without an "error" key
Results_ok == {"result", "null_ttft_result"}

\* tokens_generated of what generate() returned
TokensOf(outcome) == IF outcome \in Results_ok THEN 10 ELSE 0

\* the entry of a returned result, or {"error": str(e)}
EntryOf(prompt, outcome) ==
    [prompt |-> prompt, error |-> outcome \notin Results_ok,
     tokens |-> TokensOf(outcome),
     ttft |-> IF outcome = "result" THEN "num"
              ELSE IF outcome = "null_ttft_result" THEN "None" ELSE "absent"]

\* a faulty variant: a request that raised leaves no entry
CollectedUnlessRaised(results, prompt, outcome) ==
    IF outcome = "raise" THEN results
    ELSE Append(results, EntryOf(prompt, outcome))

\* lines 203-213 and 231-237: the result is appended, or the error entry
Collected(results, prompt, outcome) ==
    Append(results, EntryOf(prompt, outcome))

\* lines 210 and 234; an exception leaves total_tokens alone
CountedTokens(tokens, outcome) ==
    IF outcome = "raise" THEN tokens ELSE tokens + TokensOf(outcome)

NotReturned == [success |-> FALSE, error |-> "", total_requests |-> 0,
                successful_requests |-> 0, failed_requests |-> 0,
                total_tokens |-> 0]

\* line 170: the engine object, with the calls made on it so far
NewEngine(n) ==
    [initialized |-> FALSE, shutdowns |-> 0, generates |-> [i \in 1..n |-> 0]]

\* engine.generate is called on a prompt of the measured run
GenerateCalled(e, prompt) ==
    [e EXCEPT !.generates[prompt] = e.generates[prompt] + 1]

\* engine.shutdown is called
ShutdownCalled(e) == [e EXCEPT !.shutdowns = e.shutdowns + 1]

BenchmarkIdle ==
    /\ prompts = 0
    /\ concurrent_requests = 1
    /\ warmup_requests = 0
    /\ warmups = 0
    /\ engine_obj = NewEngine(0)
    /\ submitted = 0
    /\ futures = <<>>
    /\ yielded = {}
    /\ all_results = <<>>
    /\ run_tokens = 0
    /\ run_pc = "idle"
    /\ run_result = NotReturned

\* lines 170-172: the engine is constructed, nothing is called on it yet
BenchmarkInit ==
    /\ prompts \in 1..MaxPrompts
    /\ concurrent_requests \in 1..MaxWorkers
    /\ warmup_requests \in 0..MaxWarmups
    /\ warmups = 0
    /\ engine_obj = NewEngine(prompts)
    /\ submitted = 0
    /\ futures = [i \in 1..prompts |-> "unsubmitted"]
    /\ yielded = {}
    /\ all_results = <<>>
    /\ run_tokens = 0
    /\ run_pc = "initialize"
    /\ run_result = NotReturned

\* lines 311-322: the outer except shuts the engine down and returns
ExceptionResult == [NotReturned EXCEPT !.error = "exception"]

\* lines 173-176: engine.initialize() returns, or raises into the outer
\* except
Initialize(ok) ==
    /\ run_pc = "initialize"
    /\ IF ok
       THEN /\ engine_obj' = [engine_obj EXCEPT !.initialized = TRUE]
            /\ run_pc' = "warmup"
            /\ UNCHANGED run_result
       ELSE /\ engine_obj' = ShutdownCalled(engine_obj)
            /\ run_pc' = "returned"
            /\ run_result' = ExceptionResult
    /\ UNCHANGED <<prompts, concurrent_requests, warmup_requests, warmups,
                   submitted, futures, yielded, all_results, run_tokens,
                   outsideBenchmark>>

\* a faulty variant: the loop makes one pass more
WarmupPendingOneMore == warmups <= warmup_requests

\* line 181: range(self.warmup_requests) has a pass left
WarmupPending == warmups < warmup_requests

\* lines 179-190: one pass of the warm-up loop; generate() is called on the
\* first prompt and what it returns or raises is dropped
Warmup ==
    /\ run_pc = "warmup"
    /\ WarmupPending
    /\ warmups' = warmups + 1
    /\ UNCHANGED <<prompts, concurrent_requests, warmup_requests, engine_obj,
                   submitted, futures, yielded, all_results, run_tokens,
                   run_pc, run_result, outsideBenchmark>>

\* lines 192-197: the warm-up loop has ended, the measured run starts
StartRun ==
    /\ run_pc = "warmup"
    /\ ~WarmupPending
    /\ run_pc' = "run"
    /\ UNCHANGED <<prompts, concurrent_requests, warmup_requests, warmups,
                   engine_obj, submitted, futures, yielded, all_results,
                   run_tokens, run_result, outsideBenchmark>>

\* lines 201-213: one pass of the sequential loop
SequentialRequest(outcome) ==
    /\ run_pc = "run"
    /\ concurrent_requests = 1
    /\ submitted < prompts
    /\ submitted' = submitted + 1
    /\ engine_obj' = GenerateCalled(engine_obj, submitted + 1)
    /\ futures' = [futures EXCEPT ![submitted + 1] = outcome]
    /\ all_results' = Collected(all_results, submitted + 1, outcome)
    /\ run_tokens' = CountedTokens(run_tokens, outcome)
    /\ UNCHANGED <<prompts, concurrent_requests, warmup_requests, warmups,
                   yielded, run_pc, run_result, outsideBenchmark>>

\* lines 218-225: executor.submit of the next prompt
Submit ==
    /\ run_pc = "run"
    /\ concurrent_requests # 1
    /\ submitted < prompts
    /\ submitted' = submitted + 1
    /\ futures' = [futures EXCEPT ![submitted + 1] = "queued"]
    /\ UNCHANGED <<prompts, concurrent_requests, warmup_requests, warmups,
                   engine_obj, yielded, all_results, run_tokens, run_pc,
                   run_result, outsideBenchmark>>

Running == {i \in 1..prompts : futures[i] = "running"}

\* a free worker of the pool takes the call queued first and calls
\* engine.generate
WorkerStart(i) ==
    /\ i \in 1..prompts
    /\ futures[i] = "queued"
    /\ \A j \in 1..(i - 1) : futures[j] # "queued"
    /\ Cardinality(Running) < concurrent_requests
    /\ futures' = [futures EXCEPT ![i] = "running"]
    /\ engine_obj' = GenerateCalled(engine_obj, i)
    /\ UNCHANGED <<prompts, concurrent_requests, warmup_requests, warmups,
                   submitted, yielded, all_results, run_tokens, run_pc,
                   run_result, outsideBenchmark>>

\* engine.generate returns or raises in its worker
WorkerFinish(i, outcome) ==
    /\ i \in 1..prompts
    /\ futures[i] = "running"
    /\ futures' = [futures EXCEPT ![i] = outcome]
    /\ UNCHANGED <<prompts, concurrent_requests, warmup_requests, warmups,
                   engine_obj, submitted, yielded, all_results, run_tokens,
                   run_pc, run_result, outsideBenchmark>>

\* lines 228-237: as_completed yields a finished future it has not yielded
Collect(i) ==
    /\ run_pc = "run"
    /\ concurrent_requests # 1
    /\ submitted = prompts
    /\ i \in 1..prompts
    /\ futures[i] \in Outcomes
    /\ i \notin yielded
    /\ yielded' = yielded \cup {i}
    /\ all_results' = Collected(all_results, i, futures[i])
    /\ run_tokens' = CountedTokens(run_tokens, futures[i])
    /\ UNCHANGED <<prompts, concurrent_requests, warmup_requests, warmups,
                   engine_obj, submitted, futures, run_pc, run_result,
                   outsideBenchmark>>

\* successful_results of line 245
SuccessfulResults(results) ==
    LET NoError(r) == ~r.error
    IN  SelectSeq(results, NoError)

\* lines 248-254: the result returned when no request succeeded
AllFailed == [NotReturned EXCEPT !.error = "All requests failed"]

\* lines 258 and 261: sum(ttfts) raises TypeError on a "ttft" of None
MetricsRaise(results) ==
    \E k \in 1..Len(results) : ~results[k].error /\ results[k].ttft = "None"

\* lines 245-254 and 282-297: the counts of the metrics returned
RunMetrics(results, tokens, n) ==
    LET successful_results == SuccessfulResults(results)
        failed_count == Len(results) - Len(successful_results)
    IN  IF successful_results = <<>> THEN AllFailed
        ELSE [success |-> TRUE, error |-> "", total_requests |-> n,
              successful_requests |-> Len(successful_results),
              failed_requests |-> failed_count, total_tokens |-> tokens]

\* lines 239-322: the loop, or the with block, has ended.  With no
\* successful result the run returns at line 250; an exception of the
\* metrics goes to the outer except, which calls engine.shutdown(); else
\* engine.shutdown() is called at line 279 and the metrics are returned
ReturnMetrics ==
    /\ run_pc = "run"
    /\ submitted = prompts
    /\ concurrent_requests # 1 => yielded = 1..prompts
    /\ IF SuccessfulResults(all_results) = <<>>
       THEN /\ run_result' = AllFailed
            /\ UNCHANGED engine_obj
       ELSE IF MetricsRaise(all_results)
       THEN /\ run_result' = ExceptionResult
            /\ engine_obj' = ShutdownCalled(engine_obj)
       ELSE /\ run_result' = RunMetrics(all_results, run_tokens, prompts)
            /\ engine_obj' = ShutdownCalled(engine_obj)
    /\ run_pc' = "returned"
    /\ UNCHANGED <<prompts, concurrent_requests, warmup_requests, warmups,
                   submitted, futures, yielded, all_results, run_tokens,
                   outsideBenchmark>>

(***************************************************************************)
(* The same calls made on two collectors in two orders.  record() and      *)
(* record_iteration() are written here as functions of the collector       *)
(* object they are called on.                                              *)
(***************************************************************************)
\* __init__(metric_names)
MetricsCollector(names) ==
    [metric_names |-> names, raw_data |-> <<>>, iteration_data |-> <<>>,
     ttft_data |-> <<>>, request_count |-> 0, error_count |-> 0]

\* self after self.record(result, concurrency), returned or raised
RecordOn(self, result, concurrency) ==
    [self EXCEPT
       !.request_count = @ + 1,
       !.error_count = IF Truthy(result.error) THEN @ + 1 ELSE @,
       !.raw_data = IF Truthy(result.error) THEN @
                    ELSE Append(@, DataPoint(result, concurrency)),
       !.ttft_data =
           IF ~Truthy(result.error) /\ ~RecordRaises(result)
              /\ Pos(Get(result.ttft, I(0)))
           THEN Append(@, [ttft |-> result.ttft, concurrency |-> concurrency])
           ELSE @]

\* self after self.record_iteration(concurrency, elapsed, requests)
RecordIterationOn(self, concurrency, elapsed, requests) ==
    [self EXCEPT
       !.iteration_data =
           Append(@, [concurrency |-> concurrency,
                      elapsed |-> elapsed,
                      requests |-> IF requests # 0 THEN requests
                                   ELSE concurrency])]

\* what self.aggregate() leaves behind
AggregateOn(self) ==
    IF AggregateRaises(self) THEN Raised("aggregate")
    ELSE Returned("aggregate", Aggregate(self))

NoResult ==
    [error |-> "absent", total_time |-> Absent, tokens_generated |-> Absent,
     ttft |-> Absent]

RecordCall(result, concurrency) ==
    [op |-> "record", result |-> result, concurrency |-> concurrency,
     elapsed |-> I(0), requests |-> 0]

RecordIterationCall(concurrency, elapsed, requests) ==
    [op |-> "record_iteration", result |-> NoResult,
     concurrency |-> concurrency, elapsed |-> elapsed, requests |-> requests]

\* self after the call
Apply(self, call) ==
    IF call.op = "record" THEN RecordOn(self, call.result, call.concurrency)
    ELSE RecordIterationOn(self, call.concurrency, call.elapsed,
                           call.requests)

\* the calls of a script: the two streaming results at concurrency 10, the
\* first one at concurrency 1 and as a failure, and interval records of
\* concurrency 10 whose elapsed times are the least float with a unit in the
\* last place of 1, and 1/2
OrderInputs ==
    { RecordCall([error |-> e, total_time |-> r.total_time,
                  tokens_generated |-> r.tokens_generated, ttft |-> r.ttft],
                 c) :
        e \in {"absent"}, c \in {10},
        r \in {x \in ResultShapes : x.ttft \in {R(1, 10), R(1, 5)}} }
    \cup { RecordCall([error |-> e, total_time |-> I(1),
                       tokens_generated |-> I(100), ttft |-> R(1, 10)], 1) :
             e \in {"absent", "message"} }
    \cup { RecordIterationCall(10, elapsed, 1) :
             elapsed \in {I(2 ^ (MantissaBits - 1)), R(1, 2)} }

OrderIdle ==
    /\ script = <<>>
    /\ done = {}
    /\ in_order = MetricsCollector({})
    /\ shuffled = MetricsCollector({})
    /\ reports = <<>>

OrderInit ==
    /\ script = <<>>
    /\ done = {}
    /\ in_order = MetricsCollector(metric_names)
    /\ shuffled = MetricsCollector(metric_names)
    /\ reports = <<>>

\* the caller makes its next call on in_order
CallInOrder(call) ==
    /\ done = {}
    /\ Len(script) < MaxCalls
    /\ script' = Append(script, call)
    /\ in_order' = Apply(in_order, call)
    /\ UNCHANGED <<done, shuffled, reports, outsideOrder>>

\* the caller makes on shuffled any call of the script not yet made on it
CallShuffled(i) ==
    /\ i \in 1..Len(script)
    /\ i \notin done
    /\ reports = <<>>
    /\ shuffled' = Apply(shuffled, script[i])
    /\ done' = done \cup {i}
    /\ UNCHANGED <<script, in_order, reports, outsideOrder>>

\* both collectors hold every call of the script: aggregate() on each
AggregateBoth ==
    /\ script # <<>>
    /\ done = 1..Len(script)
    /\ reports = <<>>
    /\ reports' = <<AggregateOn(in_order), AggregateOn(shuffled)>>
    /\ UNCHANGED <<script, done, in_order, shuffled, outsideOrder>>

(***************************************************************************)
(* The pricing cache of CostCalculator (src/benchx/cost.py).  Times are in *)
(* hours.  A cached value carries the time it was stored (stored_at) for   *)
(* the properties; the code's values do not.                               *)
(***************************************************************************)
_cache_duration == 24

\* FALLBACK_PRICING: the instance types of each provider, with rate, gpus
\* and type
FALLBACK_PRICING ==
    [aws |->
       <<[key |-> "p5.48xlarge",
          value |-> [rate |-> R(9832, 100), gpus |-> 8, type |-> "H100"]],
         [key |-> "p4d.24xlarge",
          value |-> [rate |-> R(3277, 100), gpus |-> 8, type |-> "A100"]],
         [key |-> "g5.xlarge",
          value |-> [rate |-> R(1006, 1000), gpus |-> 1, type |-> "A10"]]>>,
     gcp |->
       <<[key |-> "a2-highgpu-8g",
          value |-> [rate |-> I(12), gpus |-> 8, type |-> "A100"]],
         [key |-> "g2-standard-4",
          value |-> [rate |-> R(135, 100), gpus |-> 1, type |-> "L4"]]>>,
     azure |->
       <<[key |-> "Standard_ND96asr_v4",
          value |-> [rate |-> R(272, 10), gpus |-> 8, type |-> "A100"]]>>]

\* FALLBACK_PRICING.get(provider, {})
FallbackOf(provider) ==
    IF provider \in DOMAIN FALLBACK_PRICING THEN FALLBACK_PRICING[provider]
    ELSE <<>>

NoInstance == [rate |-> None, gpus |-> 1, type |-> "Unknown"]

NoPricing ==
    [rate |-> None, gpus |-> 0, type |-> "", source |-> "", stored_at |-> 0]

\* a pricing_data dict
PricingData(rate, info, source) ==
    [rate |-> rate, gpus |-> info.gpus, type |-> info.type,
     source |-> source, stored_at |-> now]

\* line 152
CacheKey(provider, instance_type, region) ==
    provider \o "_" \o instance_type \o "_" \o region

\* lines 133-137
_should_refresh_cache ==
    IF _cache_timestamp = None THEN TRUE
    ELSE now - _cache_timestamp.n > _cache_duration

\* lines 158-188: what is fetched, or the fallback; `rate` is what the
\* provider's price API gave, None when the fetch failed
FetchedPricing(provider, instance_type, rate) ==
    LET fallback == DictGet(FallbackOf(provider), instance_type, NoInstance)
    IN  IF provider \in {"aws", "gcp"} /\ rate.k = "num" /\ rate.n # 0
        THEN PricingData(rate, fallback, "realtime")
        ELSE IF DictHas(FallbackOf(provider), instance_type)
        THEN PricingData(fallback.rate, fallback, "fallback")
        ELSE NoPricing

\* the calls made: provider, instance type and region (lower-case providers)
PricingKeys ==
    { <<"aws", "p5.48xlarge", "us-east-1">>,
      <<"azure", "Standard_ND96asr_v4", "eastus">>,
      <<"gcp", "n1-standard-4", "us-central1">> }

\* what the price API gives: nothing, a rate of zero, a rate
FetchedRates == {None, I(0), I(90)}

\* the hours that pass between two calls
ClockSteps == {12, 18}

CostInit ==
    /\ now = 0
    /\ _pricing_cache = <<>>
    /\ _cache_timestamp = None
    /\ stored_since_clear = {}
    /\ cost_last = [op |-> "none", key |-> "", at |-> 0, cached |-> FALSE,
                    value |-> NoPricing]

Tick(hours) ==
    /\ now + hours <= MaxClock
    /\ now' = now + hours
    /\ UNCHANGED <<_pricing_cache, _cache_timestamp, stored_since_clear,
                   cost_last, outsideCost>>

\* lines 146-195
FetchRealtimePricing(provider, instance_type, region, rate) ==
    LET cache_key == CacheKey(provider, instance_type, region)
        pricing_data == FetchedPricing(provider, instance_type, rate)
    IN  IF ~_should_refresh_cache /\ DictHas(_pricing_cache, cache_key)
        THEN /\ cost_last' = [op |-> "fetch", key |-> cache_key,
                              at |-> now, cached |-> TRUE,
                              value |-> DictAt(_pricing_cache, cache_key)]
             /\ UNCHANGED <<now, _pricing_cache, _cache_timestamp,
                            stored_since_clear, outsideCost>>
        ELSE /\ cost_last' = [op |-> "fetch", key |-> cache_key,
                              at |-> now, cached |-> FALSE,
                              value |-> pricing_data]
             /\ IF pricing_data # NoPricing
                THEN /\ _pricing_cache'
                          = DictSet(_pricing_cache, cache_key, pricing_data)
                     /\ _cache_timestamp' = I(now)
                     /\ stored_since_clear'
                          = stored_since_clear \cup {cache_key}
                ELSE UNCHANGED <<_pricing_cache, _cache_timestamp,
                                 stored_since_clear>>
             /\ UNCHANGED <<now, outsideCost>>

\* lines 140-143
ClearCache ==
    /\ _pricing_cache' = <<>>
    /\ _cache_timestamp' = None
    /\ stored_since_clear' = {}
    /\ cost_last' = [op |-> "clear_cache", key |-> "", at |-> now,
                     cached |-> FALSE, value |-> NoPricing]
    /\ UNCHANGED <<now, outsideCost>>

(***************************************************************************)
(* Specifications.                                                         *)
(***************************************************************************)
vars ==
    <<metricsVars, pctVars, fairnessVars, benchmarkVars, orderVars, costVars>>

Init ==
    /\ MetricsInit /\ PercentileIdle /\ FairnessIdle /\ BenchmarkIdle
    /\ OrderIdle /\ CostInit

Next == MetricsNext

Spec == Init /\ [][Next]_vars

InitPercentile ==
    /\ MetricsInit /\ metric_names = {}
    /\ PercentileInit /\ FairnessIdle /\ BenchmarkIdle /\ OrderIdle
    /\ CostInit

NextPercentile == PercentileCall \/ RunPercentiles

SpecPercentile == InitPercentile /\ [][NextPercentile]_vars

InitFairness ==
    /\ MetricsInit /\ metric_names = {}
    /\ PercentileIdle /\ FairnessInit /\ BenchmarkIdle /\ OrderIdle
    /\ CostInit

NextFairness ==
    \/ \E engine \in Engines : AddEngine(engine)
    \/ \E key \in ConfigKeys : \E value \in ConfigValues(key) :
          AddEntry(key, value)
    \/ CheckConfigs
    \/ AutoFixConfigs
    \/ CheckFixedConfigs

SpecFairness == InitFairness /\ [][NextFairness]_vars

InitBenchmark ==
    /\ MetricsInit /\ metric_names = {}
    /\ PercentileIdle /\ FairnessIdle /\ BenchmarkInit /\ OrderIdle
    /\ CostInit

NextBenchmark ==
    \/ \E ok \in BOOLEAN : Initialize(ok)
    \/ Warmup
    \/ StartRun
    \/ \E outcome \in Outcomes : SequentialRequest(outcome)
    \/ Submit
    \/ \E i \in 1..MaxPrompts : WorkerStart(i)
    \/ \E i \in 1..MaxPrompts : \E outcome \in Outcomes :
          WorkerFinish(i, outcome)
    \/ \E i \in 1..MaxPrompts : Collect(i)
    \/ ReturnMetrics

SpecBenchmark == InitBenchmark /\ [][NextBenchmark]_vars

\* every call the run waits for returns or raises, and the main thread and
\* the workers of the pool keep running
FairBenchmark == SpecBenchmark /\ WF_vars(NextBenchmark)

InitOrder ==
    /\ MetricsInit /\ metric_names # {}
    /\ PercentileIdle /\ FairnessIdle /\ BenchmarkIdle /\ OrderInit
    /\ CostInit

NextOrder ==
    \/ \E call \in OrderInputs : CallInOrder(call)
    \/ \E i \in 1..MaxCalls : CallShuffled(i)
    \/ AggregateBoth

SpecOrder == InitOrder /\ [][NextOrder]_vars

InitCost ==
    /\ MetricsInit /\ metric_names = {}
    /\ PercentileIdle /\ FairnessIdle /\ BenchmarkIdle /\ OrderIdle
    /\ CostInit

NextCost ==
    \/ \E hours \in ClockSteps : Tick(hours)
    \/ \E key \in PricingKeys : \E rate \in FetchedRates :
          FetchRealtimePricing(key[1], key[2], key[3], rate)
    \/ ClearCache

SpecCost == InitCost /\ [][NextCost]_vars

(***************************************************************************)
(* Properties of the collector.                                            *)
(***************************************************************************)
CountKeys ==
    {"total_requests", "successful_requests", "failed_requests", "success_rate"}

\* the keys a failed outcome may change
FailureKeys == {"total_requests", "failed_requests", "success_rate"}

\* aggregate() has just returned the report last.value
Reported == last.op = "aggregate" /\ ~last.raised

\* C1: after any sequence of record() calls, successful or failed and at any
\* concurrency, request_count and the total_requests that aggregate() reports
\* equal the number of record() invocations made so far.
C1_TotalRequestsCountsCalls ==
    /\ request_count = calls
    /\ Reported => last.value["total_requests"] = I(calls)

\* three record() calls, one of them failed, at two concurrency levels, then
\* aggregate()
C1_Witness ==
    /\ calls = 3 /\ ok_calls = 2 /\ failed_calls = 1
    /\ raw_data[1].concurrency # raw_data[2].concurrency
    /\ Reported
    /\ last.value["total_requests"] = I(3)

\* C2: in every report aggregate() returns, successful_requests and
\* failed_requests are the numbers of successful and failed outcomes recorded,
\* they add up to total_requests, and success_rate is their quotient
\* successful/total (0 when total is 0), between 0 and 1.
C2_CountsPartitionRequests ==
    Reported =>
        LET successful == last.value["successful_requests"]
            failed == last.value["failed_requests"]
            total == last.value["total_requests"]
            rate == last.value["success_rate"]
        IN  /\ successful = I(ok_calls)
            /\ failed = I(failed_calls)
            /\ RAdd(successful, failed) = total
            /\ rate.k = "num"
            /\ rate.n * total.n = successful.n * rate.d
            /\ total.n = 0 => rate = I(0)
            /\ RLe(I(0), rate) /\ RLe(rate, I(1))

\* two successes, one failure and an interval record, then aggregate()
C2_Witness ==
    /\ ok_calls = 2 /\ failed_calls = 1 /\ iteration_data # <<>>
    /\ Reported
    /\ last.value["success_rate"] = R(2, 3)

\* C3: recording a failed outcome, whatever fields it carries, changes only
\* total_requests, failed_requests and success_rate of the report: every other
\* key is present after the call exactly if it was before, with the same
\* value.
C3_FailedOutcomeFrame ==
    [][failed_calls' = failed_calls + 1 =>
         /\ AggregateRaises(SelfAfter) = AggregateRaises(Self)
         /\ ~AggregateRaises(Self) =>
              LET before == Aggregate(Self)
                  after == Aggregate(SelfAfter)
              IN  /\ DOMAIN after = DOMAIN before
                  /\ \A key \in DOMAIN before \ FailureKeys :
                        after[key] = before[key]]_vars

\* a failed outcome has just been recorded in a store whose report holds
\* throughput, per-concurrency throughput, TTFT, latency and token statistics
C3_Witness ==
    /\ last.op = "record_failed"
    /\ ~AggregateRaises(Self)
    /\ {"throughput_tokens_per_sec", "throughput_c10", "ttft_mean",
        "latency_p99", "tokens_total"} \subseteq DOMAIN Aggregate(Self)

ReportValues == {last.value[key] : key \in DOMAIN last.value}

ThroughputKeys == {"throughput_tokens_per_sec", "throughput_requests_per_sec"}

\* the sum of elapsed over all interval records
TotalElapsed == RSum(Map(iteration_data, ElapsedOf))

\* the sum of tokens_generated over the successful outcomes
TotalTokens == RSum(Map(raw_data, Tokens))

\* C7: aggregate() on a store with no successful outcome, whatever interval
\* records and metric set it has, does not raise and returns exactly the four
\* count keys, with successful_requests = 0 and success_rate = 0.0.
C7_NoSuccessGivesCountsOnly ==
    /\ ok_calls = 0 => ~AggregateRaises(Self)
    /\ ok_calls = 0 /\ last.op = "aggregate" =>
         /\ ~last.raised
         /\ DOMAIN last.value = CountKeys
         /\ last.value["successful_requests"] = I(0)
         /\ last.value["success_rate"] = I(0)

\* only failed outcomes, an interval record with elapsed > 0 and every metric
\* requested, then aggregate()
C7_Witness ==
    /\ ok_calls = 0 /\ failed_calls = 2
    /\ iteration_data # <<>> /\ Pos(TotalElapsed)
    /\ "throughput" \in metric_names
    /\ Reported

\* C8: aggregate() and get_summary() leave the store unchanged, and an
\* aggregate() call that follows an aggregate() call with no record() or
\* record_iteration() in between returns the same report.
C8_AggregateIsReadOnlyAndIdempotent ==
    [][/\ last'.op \in {"aggregate", "get_summary"} =>
            UNCHANGED <<metric_names, store>>
       /\ last.op = "aggregate" /\ last'.op = "aggregate" =>
            last'.raised = last.raised /\ last'.value = last.value]_vars

\* aggregate() called twice in a row on a store with outcomes and an interval
\* record
C8_Witness ==
    /\ Reported /\ last.again
    /\ Len(raw_data) >= 2 /\ iteration_data # <<>>
    /\ "throughput_tokens_per_sec" \in DOMAIN last.value

\* C9: when the elapsed times of all interval records sum to 0 (or there is
\* no interval record), the report holds neither throughput_tokens_per_sec nor
\* throughput_requests_per_sec, and no division by zero has happened.
C9_NoThroughputWithoutElapsed ==
    Reported =>
        /\ TotalElapsed = I(0) => DOMAIN last.value \cap ThroughputKeys = {}
        /\ ZeroDivisionError \notin ReportValues

\* throughput is requested, outcomes with tokens are stored and the only
\* interval record has elapsed = 0
C9_Witness ==
    /\ Reported
    /\ "throughput" \in metric_names
    /\ iteration_data # <<>> /\ TotalElapsed = I(0)
    /\ Pos(TotalTokens)
    /\ "tokens_total" \in DOMAIN last.value

\* the calls of the worked example, in any order: two successes at
\* concurrency 10 (100 tokens, ttft 0.1; 200 tokens, ttft 0.2), one failure,
\* and record_iteration(10, 2.0, 3)
ExampleStore ==
    LET first == [concurrency |-> 10, total_time |-> I(1),
                  tokens_generated |-> I(100), ttft |-> R(1, 10)]
        second == [concurrency |-> 10, total_time |-> I(2),
                   tokens_generated |-> I(200), ttft |-> R(1, 5)]
    IN  /\ calls = 3 /\ failed_calls = 1
        /\ raw_data \in {<<first, second>>, <<second, first>>}
        /\ iteration_data =
             <<[concurrency |-> 10, elapsed |-> I(2), requests |-> 3]>>
        /\ {"throughput", "ttft"} \subseteq metric_names

ExampleReport ==
    /\ last.value["total_requests"] = I(3)
    /\ last.value["successful_requests"] = I(2)
    /\ last.value["success_rate"] = R(2, 3)
    /\ last.value["throughput_tokens_per_sec"] = I(150)
    /\ last.value["ttft_mean"] = R(15, 100)

\* the throughput keys hold tokens / elapsed and successes / elapsed
ThroughputReported ==
    /\ ThroughputKeys \subseteq DOMAIN last.value
    /\ last.value["throughput_tokens_per_sec"] = RDiv(TotalTokens, TotalElapsed)
    /\ last.value["throughput_requests_per_sec"] =
         RDiv(I(ok_calls), TotalElapsed)

\* C10 as claimed: whenever throughput is requested and the elapsed times sum
\* to more than 0, the report holds throughput_tokens_per_sec = tokens of the
\* successful outcomes / total elapsed, and throughput_requests_per_sec =
\* successful outcomes / total elapsed.
C10_ThroughputWheneverElapsed ==
    Reported /\ "throughput" \in metric_names /\ Pos(TotalElapsed) =>
        ThroughputReported

\* C10 as the code has it: the same, for a store that holds at least one
\* successful outcome (with none the report is the four counts alone); and
\* the worked example gives total_requests = 3, successful_requests = 2,
\* success_rate = 2/3, throughput_tokens_per_sec = 150 and ttft_mean = 0.15.
C10_ThroughputOfSuccesses ==
    /\ Reported /\ "throughput" \in metric_names /\ Pos(TotalElapsed)
         /\ ok_calls > 0 => ThroughputReported
    /\ Reported /\ ExampleStore => ExampleReport

\* aggregate() has returned the report of the worked example
C10_Witness == Reported /\ ExampleStore /\ ExampleReport

TokenKeys == {"tokens_mean", "tokens_total"}

\* the tokens_generated of the stored outcomes that generated any
GeneratedTokens ==
    LET Generated(d) == Pos(d.tokens_generated)
    IN  Map(SelectSeq(raw_data, Generated), Tokens)

\* aggregate() has returned the report of a collector built with an empty
\* metric set that holds a successful outcome with tokens_generated > 0
ReportedUnrequested ==
    Reported /\ metric_names = {} /\ GeneratedTokens # <<>>

\* C11 as claimed: with an empty metric set and a successful outcome with
\* tokens_generated > 0, aggregate() returns only the count keys: no ttft,
\* tpot, throughput, latency or tokens key.
C11_OnlyCountsWhenNothingRequested ==
    ReportedUnrequested => DOMAIN last.value = CountKeys

\* C11 as the code has it: with an empty metric set and a successful outcome
\* with tokens_generated > 0, aggregate() returns the count keys and the two
\* token statistics, which no metric name gates: tokens_mean and tokens_total
\* over the outcomes with tokens; no ttft, tpot, throughput or latency key.
C11_OnlyCountsAndTokensWhenNothingRequested ==
    ReportedUnrequested =>
        /\ DOMAIN last.value = CountKeys \cup TokenKeys
        /\ last.value["tokens_total"] = RSum(GeneratedTokens)
        /\ last.value["tokens_mean"] =
             RDiv(RSum(GeneratedTokens), I(Len(GeneratedTokens)))

\* nothing requested; two streaming outcomes with tokens and an interval
\* record with elapsed > 0 are stored, so that every section has data
C11_Witness ==
    /\ ReportedUnrequested
    /\ Len(ttft_data) = 2 /\ Pos(TotalElapsed)
    /\ last.value["tokens_total"] = I(300)
    /\ last.value["tokens_mean"] = I(150)

\* C12: record() never raises, for any outcome: a successful outcome with a
\* missing total_time or tokens_generated, or with a ttft that is missing or
\* null, is accepted as it is; the call completes normally and the outcome is
\* counted and stored.
C12_RecordNeverRaises ==
    last.op \in {"record", "record_failed"} =>
        /\ ~last.raised
        /\ request_count = calls
        /\ Len(raw_data) = ok_calls

\* C13: aggregate() returns a report and never raises on any store that
\* record() and record_iteration() calls can leave behind, a record() call
\* that failed part-way included.
C13_AggregateNeverRaises ==
    last.op = "aggregate" =>
        ~last.raised /\ CountKeys \subseteq DOMAIN last.value

\* the tokens_generated of the successful outcomes recorded at a concurrency
TokensAt(concurrency) ==
    LET At(d) == d.concurrency = concurrency
    IN  RSum(Map(SelectSeq(raw_data, At), Tokens))

\* the elapsed times of the interval records of a concurrency
ElapsedAt(concurrency) ==
    LET At(d) == d.concurrency = concurrency
    IN  RSum(Map(SelectSeq(iteration_data, At), ElapsedOf))

\* the keys of the report that no section other than the per-concurrency
\* throughput writes
PerConcurrencyKeys ==
    DOMAIN last.value
      \ (CountKeys \cup ThroughputKeys \cup TokenKeys
         \cup {family \o suffix :
                 family \in {"ttft", "tpot", "latency"},
                 suffix \in {"_mean", "_median", "_p50", "_p95", "_p99",
                             "_min", "_max"}})

\* C20: with throughput requested, the report holds throughput_c{N} exactly
\* for the concurrency levels N of a successful outcome whose interval
\* records have a total elapsed > 0, with the value (tokens of the successful
\* outcomes at N) / (elapsed of the interval records at N), whatever was
\* recorded at other levels.
C20_ThroughputPerConcurrency ==
    Reported /\ "throughput" \in metric_names =>
        LET levels == {N \in Concurrencies :
                         /\ \E i \in 1..Len(raw_data) :
                               raw_data[i].concurrency = N
                         /\ Pos(ElapsedAt(N))}
        IN  /\ PerConcurrencyKeys = {ConcurrencyKey(N) : N \in levels}
            /\ \A N \in levels :
                  last.value[ConcurrencyKey(N)]
                    = RDiv(TokensAt(N), ElapsedAt(N))

\* outcomes and interval records at concurrency 1 and at 10: the report holds
\* throughput_c1 and throughput_c10, each over the tokens and the elapsed
\* time of its own level, and they differ
C20_Witness ==
    /\ Reported /\ "throughput" \in metric_names
    /\ {raw_data[i].concurrency : i \in 1..Len(raw_data)} = {1, 10}
    /\ {iteration_data[i].concurrency : i \in 1..Len(iteration_data)}
         = {1, 10}
    /\ PerConcurrencyKeys = {"throughput_c1", "throughput_c10"}
    /\ last.value["throughput_c1"] # last.value["throughput_c10"]
    /\ last.value["throughput_c10"]
         # last.value["throughput_tokens_per_sec"]

\* the keys a TPOT section may write
TpotKeys ==
    {"tpot_mean", "tpot_median", "tpot_p50", "tpot_p95", "tpot_p99",
     "tpot_min", "tpot_max"}

\* tokens_generated > 0, total_time > 0 and total_time - ttft > 0
Qualifies(d) ==
    /\ Pos(d.tokens_generated)
    /\ Pos(d.total_time)
    /\ Pos(RSub(d.total_time, d.ttft))

\* (total_time - ttft) / tokens_generated
TpotSample(d) == RDiv(RSub(d.total_time, d.ttft), d.tokens_generated)

\* the TPOT samples of the recorded outcomes that qualify
TpotSamples == Map(SelectSeq(raw_data, Qualifies), TpotSample)

\* C21: in a report with TPOT requested, the TPOT statistics are those of the
\* samples (total_time - ttft) / tokens_generated of exactly the successful
\* outcomes with tokens_generated > 0, total_time > 0 and
\* total_time - ttft > 0: every tpot value is strictly positive, and no tpot
\* key is present when no outcome qualifies.
C21_TpotOfQualifyingOutcomes ==
    Reported /\ "tpot" \in metric_names =>
        LET reported == DOMAIN last.value \cap TpotKeys
            samples == {TpotSamples[i] : i \in 1..Len(TpotSamples)}
        IN  /\ (reported = {}) = (TpotSamples = <<>>)
            /\ \A key \in reported : Pos(last.value[key])
            /\ TpotSamples # <<>> =>
                  /\ last.value["tpot_mean"]
                       = RDiv(RSum(TpotSamples), I(Len(TpotSamples)))
                  /\ {last.value["tpot_p50"], last.value["tpot_p95"],
                      last.value["tpot_p99"]} \subseteq samples
                  /\ RLe(RMin(TpotSamples), last.value["tpot_median"])
                  /\ RLe(last.value["tpot_median"], RMax(TpotSamples))

\* three outcomes recorded: one qualifies, one has ttft = total_time, one has
\* no token and no time; the report holds the TPOT of the first alone
C21_Witness ==
    /\ Reported /\ "tpot" \in metric_names
    /\ Len(raw_data) = 3 /\ Len(TpotSamples) = 1
    /\ \E i \in 1..3 :
          /\ Pos(raw_data[i].tokens_generated) /\ Pos(raw_data[i].total_time)
          /\ raw_data[i].ttft = raw_data[i].total_time
    /\ \E i \in 1..3 : ~Pos(raw_data[i].tokens_generated)
    /\ last.value["tpot_mean"] = R(9, 1000)

\* C22: when TPOT is requested and at least one TPOT sample exists, the
\* report holds the same seven statistics for TPOT as for TTFT: tpot_mean,
\* tpot_median, tpot_p50, tpot_p95, tpot_p99, tpot_min and tpot_max.
C22_TpotAggregatedLikeTtft ==
    Reported /\ "tpot" \in metric_names /\ TpotSamples # <<>> =>
        TpotKeys \subseteq DOMAIN last.value

\* C23: record_iteration(concurrency, elapsed, request_count) appends exactly
\* one interval record that holds the concurrency, the elapsed time and the
\* request_count it was given, for every request_count >= 0 including 0, and
\* leaves the recorded outcomes, the TTFT samples and the two counters alone.
C23_RecordIterationStoresItsArguments ==
    [][\A call \in IterationInputs :
          RecordIteration(call[1], call[2], call[3]) =>
              /\ iteration_data'
                   = Append(iteration_data,
                            [concurrency |-> call[1], elapsed |-> call[2],
                             requests |-> call[3]])
              /\ UNCHANGED <<raw_data, ttft_data, request_count,
                             error_count>>]_vars

\* the value of a statistic of a family in the report
Stat(family, name) == last.value[family \o "_" \o name]

\* C28: in every report, for the latency and the TTFT family when present,
\* min <= p50 <= p95 <= p99 <= max and p50 <= median <= max; for the TPOT
\* family when present, p50 <= p95 <= p99 and p50 <= median.
C28_PercentilesOrdered ==
    Reported =>
        /\ \A family \in {"latency", "ttft"} :
              (family \o "_mean") \in DOMAIN last.value =>
                  /\ RLe(Stat(family, "min"), Stat(family, "p50"))
                  /\ RLe(Stat(family, "p50"), Stat(family, "p95"))
                  /\ RLe(Stat(family, "p95"), Stat(family, "p99"))
                  /\ RLe(Stat(family, "p99"), Stat(family, "max"))
                  /\ RLe(Stat(family, "p50"), Stat(family, "median"))
                  /\ RLe(Stat(family, "median"), Stat(family, "max"))
        /\ "tpot_mean" \in DOMAIN last.value =>
              /\ RLe(Stat("tpot", "p50"), Stat("tpot", "p95"))
              /\ RLe(Stat("tpot", "p95"), Stat("tpot", "p99"))
              /\ RLe(Stat("tpot", "p50"), Stat("tpot", "median"))

\* a report over three outcomes of three latencies, with the three families:
\* the latency statistics are spread from min to max
C28_Witness ==
    /\ Reported
    /\ {"latency_mean", "ttft_mean", "tpot_mean"} \subseteq DOMAIN last.value
    /\ RLt(Stat("latency", "min"), Stat("latency", "p95"))
    /\ RLt(Stat("latency", "p99"), Stat("latency", "max"))
    /\ RLt(Stat("ttft", "p50"), Stat("ttft", "p99"))
    /\ RLt(Stat("tpot", "p50"), Stat("tpot", "p99"))
    /\ RLt(Stat("tpot", "p50"), Stat("tpot", "median"))

\* aggregate() has returned on both collectors fed the same calls
Replayed == reports # <<>>

\* the keys of the throughput section
ThroughputFamily ==
    ThroughputKeys \cup {ConcurrencyKey(c) : c \in Concurrencies}

PercentilesComputed == latency_percentiles # NotComputed

\* C30: for every non-empty list of successful latencies, the p50_latency,
\* p95_latency and p99_latency that Benchmark._run_engine computes equal
\* MetricsCollector._percentile of the same list at 50, 95 and 99, and their
\* list indices are in bounds.
C30_RunPercentilesAreNearestRank ==
    PercentilesComputed =>
        /\ IndexError \notin {latency_percentiles.p50_latency,
                              latency_percentiles.p95_latency,
                              latency_percentiles.p99_latency}
        /\ latency_percentiles.p50_latency = _percentile(data, 50)
        /\ latency_percentiles.p95_latency = _percentile(data, 95)
        /\ latency_percentiles.p99_latency = _percentile(data, 99)

Checked == fairness_pc \in {"checked", "fixed", "rechecked"}

\* auto_fix_configs(configs) has returned fixed_configs
Fixed == fairness_pc \in {"fixed", "rechecked"}

\* check_configs(fixed_configs) has returned fixed_mismatches
Rechecked == fairness_pc = "rechecked"

Dict1(key, value) == <<[key |-> key, value |-> value]>>

\* {A: {"tensor_parallel_size": 4}, "sglang": {"tp_size": 2}}, where tp_size
\* is sglang's spelling of tensor_parallel_size
ExampleConfigs(A) ==
    <<[key |-> A, value |-> Dict1("tensor_parallel_size", I(4))],
      [key |-> "sglang", value |-> Dict1("tp_size", I(2))]>>

\* the configs are those of the example, for some first engine A
IsExample == \E A \in Engines \ {"sglang"} : configs = ExampleConfigs(A)

\* C14: check({A: {"tensor_parallel_size": 4}, B: {"tp_size": 2}}), B being
\* the engine that spells the parameter tp_size, returns exactly one
\* ConfigMismatch: parameter tensor_parallel_size, severity critical,
\* value1 = 4, value2 = 2.
C14_AliasComparedUnderStandardName ==
    Checked /\ IsExample =>
        mismatches = <<ConfigMismatch("tensor_parallel_size", configs[1].key,
                                      I(4), "sglang", I(2), "critical")>>

\* check_configs has returned on the example with A = vllm
C14_Witness ==
    /\ fairness_pc = "checked"
    /\ configs = ExampleConfigs("vllm")
    /\ Len(mismatches) = 1
    /\ mismatches[1].value2 = I(2)

\* C15: auto_fix on the example, A being the first engine, returns a config
\* for B whose tp_size is 4: the reference value stands under B's own spelling
\* and replaces the old value, with no other entry added.
C15_ReferenceValueUnderOwnSpelling ==
    Fixed /\ IsExample =>
        /\ Len(fixed_configs) = 2
        /\ fixed_configs[2] =
             [key |-> "sglang", value |-> Dict1("tp_size", I(4))]
        /\ fixed_configs[1] = configs[1]

\* auto_fix_configs has returned on the example with A = vllm
C15_Witness ==
    /\ fairness_pc = "fixed"
    /\ configs = ExampleConfigs("vllm")
    /\ DictGet(fixed_configs[2].value, "tp_size", None) = I(4)

Range(seq) == {seq[i] : i \in 1..Len(seq)}

SeverityOf(param) ==
    IF param \in Range(CRITICAL_PARAMS) THEN "critical" ELSE "warning"

\* the five canonical parameters
ComparedParams == Range(CRITICAL_PARAMS) \cup Range(WARNING_PARAMS)

\* the normalized value of a parameter in the i-th of the configs cfgs;
\* `missing` stands for a parameter the config does not set
NormalizedValue(cfgs, i, param, missing) ==
    DictGet(_normalize_config(cfgs[i].key, cfgs[i].value), param, missing)

\* the places in the result of the mismatches of the i-th and the j-th
\* engine on a parameter
MismatchesOf(result, cfgs, i, j, param) ==
    {k \in 1..Len(result) :
       /\ result[k].parameter = param
       /\ result[k].engine1 = cfgs[i].key
       /\ result[k].engine2 = cfgs[j].key}

\* the result holds one mismatch for each pair i < j and each parameter on
\* which the two normalized values differ, with its severity, and nothing else
ExactlyTheDifferences(result, cfgs, missing) ==
    /\ \A i, j \in 1..Len(cfgs) : \A param \in ComparedParams :
          LET val1 == NormalizedValue(cfgs, i, param, missing)
              val2 == NormalizedValue(cfgs, j, param, missing)
              found == MismatchesOf(result, cfgs, i, j, param)
          IN  IF i < j /\ val1 # val2
              THEN /\ Cardinality(found) = 1
                   /\ \A k \in found : result[k].severity = SeverityOf(param)
              ELSE found = {}
    /\ \A k \in 1..Len(result) : result[k].parameter \in ComparedParams
    /\ result = <<>> <=>
         \A i, j \in 1..Len(cfgs) : \A param \in ComparedParams :
            NormalizedValue(cfgs, i, param, missing)
              = NormalizedValue(cfgs, j, param, missing)

\* C16 as claimed: check() compares every unordered pair of engines once and
\* returns, for each pair and each of the five canonical parameters, exactly
\* one ConfigMismatch with the parameter's severity if and only if the two
\* normalized values differ, a missing value differing from every present one;
\* the result is empty if and only if all engines agree on all five.
C16_MismatchIffValuesDiffer ==
    fairness_pc = "checked" => ExactlyTheDifferences(mismatches, configs, Absent)

\* C16 as the code has it: the same, a missing value being compared as None:
\* it differs from every present value except None.
C16_MismatchIffValuesDifferMissingAsNone ==
    fairness_pc = "checked" =>
        /\ ExactlyTheDifferences(mismatches, configs, None)
        /\ \A k \in 1..Len(mismatches) : \E i, j \in 1..Len(configs) :
              /\ i < j
              /\ k \in MismatchesOf(mismatches, configs, i, j,
                                    mismatches[k].parameter)
              /\ mismatches[k].value1 =
                   NormalizedValue(configs, i, mismatches[k].parameter, None)
              /\ mismatches[k].value2 =
                   NormalizedValue(configs, j, mismatches[k].parameter, None)

\* three engines: the first and the third differ on a critical parameter that
\* the second does not set, the second sets a warning parameter alone
C16_Witness ==
    /\ fairness_pc = "checked"
    /\ Len(configs) = 3
    /\ {m.parameter : m \in Range(mismatches)}
         = {"tensor_parallel_size", "batch_size"}
    /\ Len(mismatches) = 5

\* the critical parameters that the reference (first) engine's config sets,
\* under any of its spellings
ReferenceParams ==
    {param \in Range(CRITICAL_PARAMS) :
       NormalizedValue(configs, 1, param, Absent) # Absent}

\* C17: after auto_fix, for every critical parameter that the reference
\* (first) engine's config sets under any of its spellings, every engine's
\* normalized value of the parameter in the returned configs is the
\* reference's value, and check() on the returned configs reports no critical
\* mismatch on it.
C17_AutoFixConverges ==
    /\ Fixed /\ configs # <<>> =>
         \A param \in ReferenceParams : \A i \in 1..Len(fixed_configs) :
            NormalizedValue(fixed_configs, i, param, None)
              = NormalizedValue(configs, 1, param, None)
    /\ Rechecked /\ configs # <<>> =>
         \A k \in 1..Len(fixed_mismatches) :
            fixed_mismatches[k].parameter \notin ReferenceParams

WarningMismatches(result) ==
    LET IsWarning(m) == m.severity = "warning"
    IN  SelectSeq(result, IsWarning)

\* C18: auto_fix leaves gpu_memory_utilization and batch_size of every
\* engine's config as they were, so check() on the result reports the warning
\* mismatches it reported before, with the same values.
C18_WarningsNeverFixed ==
    /\ Fixed =>
         /\ Len(fixed_configs) = Len(configs)
         /\ \A i \in 1..Len(configs) : \A param \in Range(WARNING_PARAMS) :
               /\ fixed_configs[i].key = configs[i].key
               /\ DictGet(fixed_configs[i].value, param, Absent)
                    = DictGet(configs[i].value, param, Absent)
               /\ NormalizedValue(fixed_configs, i, param, Absent)
                    = NormalizedValue(configs, i, param, Absent)
    /\ Rechecked =>
         WarningMismatches(fixed_mismatches) = WarningMismatches(mismatches)

\* auto_fix has overwritten a critical parameter of an engine that differs
\* from the reference on batch_size too, and the warning is reported again
C18_Witness ==
    /\ Rechecked
    /\ fixed_configs # configs
    /\ DictHas(configs[1].value, "batch_size")
    /\ DictHas(configs[1].value, "tensor_parallel_size")
    /\ WarningMismatches(mismatches) # <<>>
    /\ Len(fixed_mismatches) < Len(mismatches)

\* C26: whenever check() reports mismatches, the config auto_fix returns for
\* the reference (first) engine has exactly the keys and values of its input
\* config, whichever spelling of a critical parameter that engine uses.
C26_ReferenceConfigUnchanged ==
    Fixed /\ mismatches # <<>> => fixed_configs[1] = configs[1]

(***************************************************************************)
(* Properties of Benchmark._run_engine.                                    *)
(***************************************************************************)
\* the places of the entries of a prompt in all_results
EntriesOf(prompt) ==
    {k \in 1..Len(all_results) : all_results[k].prompt = prompt}

FailedEntries == {k \in 1..Len(all_results) : all_results[k].error}

SuccessfulEntries == {k \in 1..Len(all_results) : ~all_results[k].error}

\* the run has returned after its requests
RequestsDone == run_pc = "returned" /\ engine_obj.initialized

\* C19: in sequential and in thread-pool mode, whatever the completion order
\* and whichever requests raise or fail, no prompt ever has two entries in
\* all_results, and when the run returns every prompt has exactly one, a
\* result or an error entry: successful plus failed entries are the prompts,
\* and so are the successful_requests and failed_requests returned.
C19_OneEntryPerPrompt ==
    /\ \A prompt \in 1..prompts : Cardinality(EntriesOf(prompt)) <= 1
    /\ RequestsDone =>
         /\ \A prompt \in 1..prompts :
               /\ Cardinality(EntriesOf(prompt)) = 1
               /\ \A k \in EntriesOf(prompt) :
                     all_results[k] = EntryOf(prompt, futures[prompt])
         /\ Cardinality(SuccessfulEntries) + Cardinality(FailedEntries)
              = prompts
         /\ run_result.success =>
              /\ run_result.total_requests = prompts
              /\ run_result.successful_requests
                   = Cardinality(SuccessfulEntries)
              /\ run_result.failed_requests = Cardinality(FailedEntries)
              /\ run_result.successful_requests + run_result.failed_requests
                   = prompts
         /\ run_result = AllFailed <=> SuccessfulEntries = {}

\* a thread-pool run of three prompts has returned: the second prompt
\* completed first and raised, the first returned a result, the third a
\* result with an error
C19_Witness ==
    /\ RequestsDone
    /\ concurrent_requests = 2 /\ prompts = 3
    /\ all_results[1] = EntryOf(2, "raise")
    /\ futures = <<"result", "raise", "error_result">>
    /\ run_result.successful_requests = 1
    /\ run_result.failed_requests = 2

\* the generate calls made so far fit the budget: the warm-up loop never
\* makes more than warmup_requests calls and is over before the first
\* measured call, and no prompt is ever sent twice
WithinBudget ==
    /\ warmups <= warmup_requests
    /\ \A prompt \in 1..prompts :
          /\ engine_obj.generates[prompt] <= 1
          /\ engine_obj.generates[prompt] = 1 => warmups = warmup_requests

\* the budget is spent when the run returns after its requests, and what it
\* returns is a result dict
BudgetSpent ==
    /\ RequestsDone =>
          /\ warmups = warmup_requests
          /\ \A prompt \in 1..prompts : engine_obj.generates[prompt] = 1
    /\ run_pc = "returned" =>
          \/ run_result.success
          \/ run_result \in {AllFailed, ExceptionResult}

\* C25: when every generate call returns or raises, a run whose initialize
\* succeeded makes exactly warmup_requests warm-up generate calls, all of
\* them before the first measured call, then exactly one measured generate
\* call per prompt (none is retried, none is cut off), and the run ends by
\* returning a result dict.
C25_StaticRequestBudget ==
    /\ [](WithinBudget /\ BudgetSpent)
    /\ <>(run_pc = "returned")

\* a thread-pool run with two warm-up calls and three prompts has returned
\* its metrics although the second prompt's call raised
C25_Witness ==
    /\ RequestsDone
    /\ warmup_requests = MaxWarmups /\ warmups = MaxWarmups
    /\ concurrent_requests = 2 /\ prompts = 3
    /\ futures = <<"result", "raise", "error_result">>
    /\ \A prompt \in 1..prompts : engine_obj.generates[prompt] = 1
    /\ run_result.success

\* C27: on every path by which a run returns (its metrics, "All requests
\* failed", or the result of the outer except), an engine whose initialize
\* returned has had shutdown called on it.
C27_InitializedEngineShutDown ==
    run_pc = "returned" /\ engine_obj.initialized
        => engine_obj.shutdowns >= 1

(***************************************************************************)
(* Properties of _percentile.                                              *)
(***************************************************************************)
\* _percentile has returned or raised on a non-empty list
PercentileCalled == pct_result # NotCalled /\ data # <<>>

Elements(s) == {s[i] : i \in 1..Len(s)}

IsMaximum(x, s) == x \in Elements(s) /\ \A y \in Elements(s) : RLe(y, x)

IsMinimum(x, s) == x \in Elements(s) /\ \A y \in Elements(s) : RLe(x, y)

\* x stands at zero-based index i of the ascending order of s
IsAtSortedIndex(x, s, i) ==
    /\ x \in Elements(s)
    /\ Cardinality({j \in 1..Len(s) : RLt(s[j], x)}) <= i
    /\ Cardinality({j \in 1..Len(s) : RLe(s[j], x)}) > i

\* C4: for every non-empty list S, _percentile(S, 100) is max(S), and for P in
\* {50, 95, 99, 100} _percentile(S, P) is a value that occurs in S.
C4_NearestRankReturnsSample ==
    PercentileCalled /\ percentile \in {50, 95, 99, 100} =>
        /\ pct_result \in Elements(data)
        /\ percentile = 100 => IsMaximum(pct_result, data)

\* the median asked of an even number of distinct samples, where an
\* interpolating estimator returns a value between two samples
C4_Witness ==
    /\ PercentileCalled /\ percentile = 50
    /\ data = <<I(3), I(1), I(2), I(3)>>
    /\ pct_result = I(2)

\* C5: for every non-empty list S of length n and every integer P in
\* [0, 100), _percentile(S, P) is sorted(S)[i] for i = max(0, floor(n*P/100) - 1)
\* clamped to [0, n-1]; the index is in bounds and the call does not fail.
C5_IndexFormula ==
    PercentileCalled /\ percentile \in 0..99 =>
        LET n == Len(data)
            index == Max(0, (n * percentile) \div 100 - 1)
            i == Min(Max(index, 0), n - 1)
        IN  /\ 0 <= index /\ index <= n - 1
            /\ pct_result.k = "num"
            /\ IsAtSortedIndex(pct_result, data, i)

\* p99 of four distinct-rank samples is the third of them, not the largest
C5_Witness ==
    /\ PercentileCalled /\ percentile = 99
    /\ data = <<I(3), I(1), I(2), I(3)>>
    /\ pct_result = I(3)
    /\ (Len(data) * percentile) \div 100 - 1 = 2

=============================================================================
